---- MODULE Spec2Model ----
(***************************************************************************)
(* FutureSort (src/futuresort.py): a Qt window (SchedulerApp) that arms a  *)
(* background SchedulerThread which polls the clock once per second and    *)
(* calls run_kilosort when the scheduled time has been reached.            *)
(*                                                                         *)
(* Two threads of control are modelled: the GUI thread, which runs the     *)
(* slots of SchedulerApp one at a time from the Qt event loop, and the     *)
(* run() method of every SchedulerThread that has been started.  The       *)
(* finished signal is emitted on the background thread and received by a   *)
(* slot of an object living in the GUI thread, so Qt delivers it as a      *)
(* queued call: it waits in the GUI event queue until the event loop       *)
(* dispatches it, in no fixed order with respect to the operator's clicks. *)
(* Time is counted in polling intervals (one tick = the one second of      *)
(* time.sleep(1)).                                                         *)
(***************************************************************************)
EXTENDS Integers, Sequences, FiniteSets, TLC

\* ---------------------------------------------------------------- bounds
\* The clock runs from 0 to MaxTime; at most MaxThreads jobs are scheduled.
MaxTime == 2
MaxThreads == 3
\* With two recordings to choose from (JobSpec), at most MaxJobs jobs are scheduled.
MaxJobs == 2

\* ------------------------------------------------------------- constants
\* Python's None for a path that was never selected (lines 102-104).
None == "None"
\* What a file dialog returns when it is dismissed (lines 251, 264, 278).
NoSelection == ""
\* The files and folders the operator may pick in the dialogs.
DataFiles == {"d1"}
ResultsDirs == {"r1"}
ProbeFiles == {"p1"}

\* A second recording the operator may pick in the data file dialog.
OtherDataFiles == {"d2"}

Times == 0..MaxTime

\* The clock counts seconds: value * 3600 (line 361) and timedelta(days=1) (line 371).
SecondsPerHour == 3600
SecondsPerDay == 86400

\* The time_type and unit arguments of set_scheduled_time: the ones it names
\* (lines 357, 358, 360, 364) and one it does not.
TimeTypes == {"relative", "absolute", "weekly"}
Units == {"seconds", "hours", "minutes"}
\* The value argument: every hour of the day and one value beyond either end.
PresetValues == -1..24
\* The moments at which the presets are exercised: one second before, at and one
\* second after every full hour of a day and the midnight that ends it.
PresetClock == {h * SecondsPerHour + d : h \in 0..24, d \in -1..1} \cap Nat
ThreadIds == 1..MaxThreads

VARIABLES
    now,                    \* datetime.now(): the wall clock
    data_file,              \* SchedulerApp.data_file
    results_dir,            \* SchedulerApp.results_dir
    probe_file,             \* SchedulerApp.probe_file
    datetime_edit,          \* SchedulerApp.datetime_edit.dateTime()
    countdown_label,        \* SchedulerApp.countdown_label: [text, remaining]
    schedule_button,        \* SchedulerApp.schedule_button: [enabled, text, style]
    cancel_button,          \* SchedulerApp.cancel_button.isEnabled()
    scheduler_thread,       \* SchedulerApp.scheduler_thread: 0 = no attribute, else a thread id
    threads,                \* every SchedulerThread created so far, by id
    gui_pc,                 \* the GUI thread: "idle" in the event loop, "wait" inside QThread.wait(),
                            \* "exited" once app.exec() has returned
    events                  \* queued finished signals waiting in the GUI event loop: the
                            \* sender and how its run_kilosort call had ended (the signal
                            \* itself carries no argument)

vars == <<now, data_file, results_dir, probe_file, datetime_edit,
          countdown_label, schedule_button, cancel_button, scheduler_thread,
          threads, gui_pc, events>>

gui_widgets == <<countdown_label, schedule_button, cancel_button>>
gui_inputs == <<data_file, results_dir, probe_file, datetime_edit>>

\* ------------------------------------------------------------ helpers
\* A countdown label showing a fixed text.
Label(text) == [text |-> text, remaining |-> 0]

\* Python truthiness of a path attribute: None and "" are falsy.
Truthy(path) == path # None /\ path # NoSelection

\* all([self.data_file, self.results_dir, self.probe_file])
all_paths_set(d, r, p) == Truthy(d) /\ Truthy(r) /\ Truthy(p)

\* (mutant) a target time equal to now is let through.
time_has_passed_strict(t, clock) == t < clock

\* self.scheduled_time <= datetime.now()
time_has_passed(t, clock) == t <= clock

\* (mutant) the job is taken as due one polling interval early.
is_due_one_early(clock, t) == clock + 1 >= t

\* now >= self.scheduled_time
is_due(clock, t) == clock >= t

\* QThread.isRunning(): run() has been started and has not returned.
isRunning(th) == th.pc \notin {"done", "destroyed"}

\* SchedulerThread.__init__ followed by start(): run() is about to test its loop condition.
SchedulerThread(t, d, p, r) ==
    [scheduled_time |-> t, data_file |-> d, probe_file |-> p, results_dir |-> r,
     running |-> TRUE, pc |-> "loop", calls |-> <<>>, outcome |-> "none", emitted |-> 0]

\* A SchedulerThread object that has been garbage collected.
Destroyed ==
    [scheduled_time |-> 0, data_file |-> None, probe_file |-> None, results_dir |-> None,
     running |-> FALSE, pc |-> "destroyed", calls |-> <<>>, outcome |-> "none", emitted |-> 0]

\* Assigning self.scheduler_thread drops the last reference to the previous thread
\* object: it is collected unless its run() is still executing (the running call
\* holds a reference to self).
release(ths, old) ==
    IF old # 0 /\ ~isRunning(ths[old]) THEN [ths EXCEPT ![old] = Destroyed] ELSE ths

\* (mutant) the attributes are passed in the order of the constructor's parameters
\* (data_file, probe_file, results_dir) instead of run_kilosort's.
run_kilosort_call_constructor_order(th) ==
    [data_file |-> th.data_file, results_dir |-> th.probe_file, probe_file |-> th.results_dir]

\* The arguments run_kilosort receives from run().
run_kilosort_call(th) ==
    [data_file |-> th.data_file, results_dir |-> th.results_dir, probe_file |-> th.probe_file]

\* (mutant) the exception is not caught: run() ends without reaching the emit.
pc_after_run_kilosort_uncaught(th, result) ==
    IF result = "raised" THEN "done" ELSE "emit"

\* (mutant) a stop requested during the call suppresses the emit.
pc_after_run_kilosort_stopped(th, result) ==
    IF th.running THEN "emit" ELSE "done"

\* Where run() goes when run_kilosort has ended: a result falls through the try
\* block and an Exception is caught by the except clause, both reach the emit.
pc_after_run_kilosort(th, result) == "emit"

\* (mutant) the break after the emit is missing: run() sleeps and polls again.
after_finished_emit_no_break == "sleep"

\* Where run() goes after emitting finished: break leaves the loop and run() returns.
after_finished_emit == "done"

\* datetime.combine(current_date, datetime.min.time().replace(hour=value)), with
\* the date counted in days.
combine(current_date, hour) == current_date * SecondsPerDay + hour * SecondsPerHour

\* datetime.now().date() when the clock shows clock.
date(clock) == clock \div SecondsPerDay

\* (mutant) hour 24 is let through.
hour_out_of_range_inclusive(value) == value < 0 \/ value > 24

\* value < 0 or value > 23
hour_out_of_range(value) == value < 0 \/ value > 23

\* (mutant) an hour that starts exactly now is kept for today.
rolls_over_strict(absolute_time, clock) == absolute_time < clock

\* absolute_time <= datetime.now()
rolls_over(absolute_time, clock) == absolute_time <= clock

\* set_scheduled_time as a function of its arguments, of the three readings of the
\* clock it takes (current_time at line 356, date_clock at line 365, compare_clock
\* at line 370) and of the content of the date/time field: whether it raised
\* ValueError, and the content of the field when it is left.
set_scheduled_time_result(time_type, value, unit, current_time, date_clock, compare_clock, field) ==
    IF time_type = "relative" THEN
        IF unit = "seconds" THEN
            [raised |-> FALSE, datetime_edit |-> current_time + value]
        ELSE IF unit = "hours" THEN
            [raised |-> FALSE, datetime_edit |-> current_time + value * SecondsPerHour]
        ELSE
            [raised |-> TRUE, datetime_edit |-> field]
    ELSE IF time_type = "absolute" THEN
        IF hour_out_of_range(value) THEN
            [raised |-> TRUE, datetime_edit |-> field]
        ELSE
            LET absolute_time == combine(date(date_clock), value)
            IN  [raised |-> FALSE,
                 datetime_edit |-> IF rolls_over(absolute_time, compare_clock)
                                   THEN absolute_time + SecondsPerDay
                                   ELSE absolute_time]
    ELSE
        [raised |-> TRUE, datetime_edit |-> field]

\* ---------------------------------------------------------------- Init
\* SchedulerApp.__init__ with the built-in fallback configuration (DEBUG_MODE = False).
Init ==
    /\ now = 0
    /\ data_file = None
    /\ results_dir = None
    /\ probe_file = None
    /\ datetime_edit = 0
    /\ countdown_label = Label("Not scheduled")
    /\ schedule_button = [enabled |-> TRUE, text |-> "Schedule", style |-> ""]
    /\ cancel_button = FALSE
    /\ scheduler_thread = 0
    /\ threads = <<>>
    /\ gui_pc = "idle"
    /\ events = <<>>

\* ------------------------------------------------------------- the clock
Tick ==
    /\ now < MaxTime
    /\ now' = now + 1
    /\ UNCHANGED <<gui_inputs, gui_widgets, scheduler_thread,
                   threads, gui_pc, events>>

\* ------------------------------------------------- GUI thread: the slots
select_data_file ==
    /\ gui_pc = "idle"
    /\ \E file_name \in DataFiles \cup {NoSelection} :
          data_file' = IF Truthy(file_name) THEN file_name ELSE data_file
    /\ UNCHANGED <<now, results_dir, probe_file, datetime_edit,
                   gui_widgets, scheduler_thread, threads, gui_pc, events>>

\* select_data_file when the dialog shows a different recording.
select_other_data_file ==
    /\ gui_pc = "idle"
    /\ \E file_name \in OtherDataFiles \cup {NoSelection} :
          data_file' = IF Truthy(file_name) THEN file_name ELSE data_file
    /\ UNCHANGED <<now, results_dir, probe_file, datetime_edit,
                   gui_widgets, scheduler_thread, threads, gui_pc, events>>

select_results_dir ==
    /\ gui_pc = "idle"
    /\ \E folder_name \in ResultsDirs \cup {NoSelection} :
          results_dir' = IF Truthy(folder_name) THEN folder_name ELSE results_dir
    /\ UNCHANGED <<now, data_file, probe_file, datetime_edit,
                   gui_widgets, scheduler_thread, threads, gui_pc, events>>

select_probe_file ==
    /\ gui_pc = "idle"
    /\ \E file_name \in ProbeFiles \cup {NoSelection} :
          probe_file' = IF Truthy(file_name) THEN file_name ELSE probe_file
    /\ UNCHANGED <<now, data_file, results_dir, datetime_edit,
                   gui_widgets, scheduler_thread, threads, gui_pc, events>>

\* The operator types a date and time into the QDateTimeEdit.
edit_datetime ==
    /\ gui_pc = "idle"
    /\ \E t \in Times : datetime_edit' = t
    /\ datetime_edit' # datetime_edit
    /\ UNCHANGED <<now, data_file, results_dir, probe_file,
                   gui_widgets, scheduler_thread, threads, gui_pc, events>>

\* set_scheduled_time, called by a preset button.  The clock may advance between
\* its readings; a call that raises leaves the field as it was.
set_scheduled_time(time_type, value, unit) ==
    /\ gui_pc = "idle"
    /\ \E current_time \in now..(now + 1) :
       \E date_clock \in current_time..(now + 1) :
       \E compare_clock \in date_clock..(now + 1) :
          /\ datetime_edit' = set_scheduled_time_result(time_type, value, unit, current_time,
                                    date_clock, compare_clock, datetime_edit).datetime_edit
          /\ now' = compare_clock
    /\ UNCHANGED <<data_file, results_dir, probe_file,
                   gui_widgets, scheduler_thread, threads, gui_pc, events>>

\* The "5s" button (line 189), with the delay scaled to the clock of the model.
five_sec_button ==
    /\ \E value \in 1..MaxTime : set_scheduled_time("relative", value, "seconds")
    /\ now' \in Times
    /\ datetime_edit' \in Times

\* The path schedule_command takes: the early return of line 284, the early
\* return of line 290, or on to creating and starting the thread.
schedule_command_branch(d, r, p, t, clock) ==
    IF ~all_paths_set(d, r, p) THEN "incomplete"
    ELSE IF time_has_passed(t, clock) THEN "passed"
    ELSE "start"

\* What schedule_command leaves in <<countdown_label, schedule_button, cancel_button>>.
widgets_after_schedule(branch, label, schedule, cancel) ==
    CASE branch = "incomplete" -> <<label, schedule, cancel>>
      [] branch = "passed" ->
            <<Label("Scheduled time has passed"), [schedule EXCEPT !.style = ""], cancel>>
      [] branch = "start" ->
            <<label,
              [enabled |-> FALSE, text |-> "Scheduled",
               style |-> "background-color: red; color: black;"],
              TRUE>>

\* Clicking the Schedule button; a disabled button emits no clicked signal.
schedule_command ==
    /\ gui_pc = "idle"
    /\ schedule_button.enabled
    /\ LET branch == schedule_command_branch(data_file, results_dir, probe_file,
                                             datetime_edit, now)
           after == widgets_after_schedule(branch, countdown_label, schedule_button,
                                           cancel_button)
       IN /\ IF branch = "start"
             THEN /\ Len(threads) < MaxThreads
                  /\ threads' = Append(release(threads, scheduler_thread),
                         SchedulerThread(datetime_edit, data_file, probe_file, results_dir))
                  /\ scheduler_thread' = Len(threads) + 1
             ELSE UNCHANGED <<scheduler_thread, threads>>
          /\ countdown_label' = after[1]
          /\ schedule_button' = after[2]
          /\ cancel_button' = after[3]
    /\ UNCHANGED <<now, gui_inputs, gui_pc, events>>

\* Clicking the Cancel button: stop() on the current thread, then the GUI thread
\* blocks in wait() until that thread's run() has returned.
cancel_schedule ==
    /\ gui_pc = "idle"
    /\ cancel_button
    /\ scheduler_thread # 0
    /\ threads' = [threads EXCEPT ![scheduler_thread].running = FALSE]
    /\ gui_pc' = "wait"
    /\ UNCHANGED <<now, gui_inputs, gui_widgets, scheduler_thread, events>>

\* wait() returns once the thread has finished; cancel_schedule resets the widgets.
cancel_schedule_return ==
    /\ gui_pc = "wait"
    /\ ~isRunning(threads[scheduler_thread])
    /\ countdown_label' = Label("Not scheduled")
    /\ schedule_button' = [enabled |-> TRUE, text |-> "Schedule", style |-> ""]
    /\ cancel_button' = FALSE
    /\ gui_pc' = "idle"
    /\ UNCHANGED <<now, gui_inputs, scheduler_thread, threads, events>>

\* What update_countdown writes into the label: scheduled_time is read from the
\* date/time field (line 322) and compared with datetime.now().
countdown_label_after_update ==
    IF datetime_edit > now
    THEN [text |-> "Time until execution", remaining |-> datetime_edit - now]
    ELSE Label("Action has been triggered")

\* The one-second QTimer.
update_countdown ==
    /\ gui_pc = "idle"
    /\ scheduler_thread # 0
    /\ isRunning(threads[scheduler_thread])
    /\ countdown_label' = countdown_label_after_update
    /\ UNCHANGED <<now, gui_inputs, schedule_button, cancel_button,
                   scheduler_thread, threads, gui_pc, events>>

\* (mutant) the slot forgets to enable the Schedule button again.
on_execution_finished_button_stays_disabled ==
    /\ gui_pc = "idle"
    /\ events # <<>>
    /\ events' = Tail(events)
    /\ schedule_button' = [schedule_button EXCEPT !.text = "Schedule", !.style = ""]
    /\ cancel_button' = FALSE
    /\ countdown_label' = Label("Action finished")
    /\ UNCHANGED <<now, gui_inputs, scheduler_thread, threads, gui_pc>>

\* The event loop dispatches the oldest queued finished signal.
on_execution_finished ==
    /\ gui_pc = "idle"
    /\ events # <<>>
    /\ events' = Tail(events)
    /\ schedule_button' = [enabled |-> TRUE, text |-> "Schedule", style |-> ""]
    /\ cancel_button' = FALSE
    /\ countdown_label' = Label("Action finished")
    /\ UNCHANGED <<now, gui_inputs, scheduler_thread, threads, gui_pc>>

\* --------------------------------------- background: SchedulerThread.run
\* (mutant) finished is emitted after the loop, on every way out of it.
run_loop_emit_on_exit(i) ==
    /\ i <= Len(threads)
    /\ threads[i].pc = "loop"
    /\ threads' = [threads EXCEPT ![i].pc = IF threads[i].running THEN "check" ELSE "emit"]
    /\ UNCHANGED <<now, gui_inputs, gui_widgets, scheduler_thread,
                   gui_pc, events>>

\* while self.running:
run_loop(i) ==
    /\ i <= Len(threads)
    /\ threads[i].pc = "loop"
    /\ threads' = [threads EXCEPT ![i].pc = IF threads[i].running THEN "check" ELSE "done"]
    /\ UNCHANGED <<now, gui_inputs, gui_widgets, scheduler_thread,
                   gui_pc, events>>

\* now = datetime.now(); if now >= self.scheduled_time: ... run_kilosort(...) is entered
run_check(i) ==
    /\ i <= Len(threads)
    /\ threads[i].pc = "check"
    /\ threads' = IF is_due(now, threads[i].scheduled_time)
                  THEN [threads EXCEPT ![i].pc = "exec",
                                       ![i].calls = Append(@, run_kilosort_call(threads[i]))]
                  ELSE [threads EXCEPT ![i].pc = "sleep"]
    /\ UNCHANGED <<now, gui_inputs, gui_widgets, scheduler_thread,
                   gui_pc, events>>

\* run_kilosort returns its result or raises; either way run() goes on to the emit.
run_kilosort_ends(i) ==
    /\ i <= Len(threads)
    /\ threads[i].pc = "exec"
    /\ \E result \in {"returned", "raised"} :
          threads' = [threads EXCEPT ![i].pc = pc_after_run_kilosort(threads[i], result),
                                     ![i].outcome = result]
    /\ UNCHANGED <<now, gui_inputs, gui_widgets, scheduler_thread,
                   gui_pc, events>>

\* self.signals.finished.emit(); break
run_emit_finished(i) ==
    /\ i <= Len(threads)
    /\ threads[i].pc = "emit"
    /\ events' = Append(events, [sender |-> i, outcome |-> threads[i].outcome])
    /\ threads' = [threads EXCEPT ![i].pc = after_finished_emit, ![i].emitted = @ + 1]
    /\ UNCHANGED <<now, gui_inputs, gui_widgets, scheduler_thread, gui_pc>>

\* time.sleep(1)
run_sleep(i) ==
    /\ i <= Len(threads)
    /\ threads[i].pc = "sleep"
    /\ threads' = [threads EXCEPT ![i].pc = "loop"]
    /\ UNCHANGED <<now, gui_inputs, gui_widgets, scheduler_thread,
                   gui_pc, events>>

run(i) ==
    \/ run_loop(i)
    \/ run_check(i)
    \/ run_kilosort_ends(i)
    \/ run_emit_finished(i)
    \/ run_sleep(i)

\* The operator closes the window: app.exec() returns and main() goes on to
\* sys.exit().  SchedulerApp defines no closeEvent and main() calls neither
\* stop() nor wait(), so nothing else changes.  Only an idle event loop can
\* handle the close event.
main_exit ==
    /\ gui_pc = "idle"
    /\ gui_pc' = "exited"
    /\ UNCHANGED <<now, gui_inputs, gui_widgets, scheduler_thread, threads, events>>

Next ==
    \/ Tick
    \/ select_data_file
    \/ select_results_dir
    \/ select_probe_file
    \/ edit_datetime
    \/ five_sec_button
    \/ schedule_command
    \/ cancel_schedule
    \/ cancel_schedule_return
    \/ update_countdown
    \/ on_execution_finished
    \/ \E i \in ThreadIds : run(i)

Spec == Init /\ [][Next]_vars

\* The operating system keeps scheduling every started thread, run_kilosort ends,
\* the clock advances and the Qt event loop dispatches what is queued for it.
FairSpec ==
    /\ Spec
    /\ WF_vars(Tick)
    /\ WF_vars(on_execution_finished)
    /\ WF_vars(cancel_schedule_return)
    /\ \A i \in ThreadIds : WF_vars(run(i))

\* The application with its shutdown: the steps of Next and the closing of the
\* window.  After main_exit no slot runs any more (every slot needs the event
\* loop); the threads keep running until the interpreter tears the process down.
ShutdownNext ==
    \/ Next
    \/ main_exit

ShutdownSpec == Init /\ [][ShutdownNext]_vars

\* The application with two recordings to choose from, for MaxJobs jobs.
JobNext ==
    \/ Next /\ Len(threads') <= MaxJobs
    \/ select_other_data_file

JobSpec == Init /\ [][JobNext]_vars

\* The preset helper on its own: the window has just been built at some moment
\* of PresetClock (the date/time field shows the current time, line 173) and
\* set_scheduled_time is called with every kind of request.
PresetInit ==
    /\ now \in PresetClock
    /\ data_file = None
    /\ results_dir = None
    /\ probe_file = None
    /\ datetime_edit = now
    /\ countdown_label = Label("Not scheduled")
    /\ schedule_button = [enabled |-> TRUE, text |-> "Schedule", style |-> ""]
    /\ cancel_button = FALSE
    /\ scheduler_thread = 0
    /\ threads = <<>>
    /\ gui_pc = "idle"
    /\ events = <<>>

PresetNext ==
    \E time_type \in TimeTypes, value \in PresetValues, unit \in Units :
        /\ set_scheduled_time(time_type, value, unit)
        /\ now' \in PresetClock

PresetSpec == PresetInit /\ [][PresetNext]_vars

\* ================================================================ claims
\* Thread i has been created by schedule_command.
Created(i) == i <= Len(threads)

\* Thread i is alive: its run() has been started and has not returned.
Alive(i) == Created(i) /\ isRunning(threads[i])

\* The number of times thread i has entered run_kilosort.
Invocations(i) == Len(threads[i].calls)

\* The control surface as it is when nothing is scheduled.
IdleSurface ==
    /\ schedule_button.enabled
    /\ schedule_button.text = "Schedule"
    /\ ~cancel_button

\* The request the Schedule button would submit now is invalid.
InvalidRequest ==
    \/ data_file \in {None, NoSelection}
    \/ results_dir \in {None, NoSelection}
    \/ probe_file \in {None, NoSelection}
    \/ datetime_edit <= now

\* C1: exactly-once execution.  No thread enters run_kilosort a second time,
\* however many polling ticks follow the target time, and every accepted job
\* whose stop flag is never set is eventually executed (the thread keeps being
\* scheduled and the clock advances): again and again a state is reached in
\* which every job accepted so far has been executed once or been cancelled.
\* Both "executed once" and "stop flag set" hold for good once they hold, so this
\* is the same as each accepted job leading to its own execution or cancellation.
C1_ExactlyOnce ==
    /\ [](\A i \in ThreadIds : Created(i) => Invocations(i) <= 1)
    /\ []<>(\A i \in ThreadIds :
               Created(i) => (~threads[i].running \/ Invocations(i) = 1))

\* C1 witness: a job that was never cancelled has been executed once and its
\* thread has ended, with the clock past the target time.
C1_Witness ==
    \E i \in ThreadIds :
        /\ Created(i)
        /\ threads[i].running
        /\ threads[i].pc = "done"
        /\ Invocations(i) = 1
        /\ now > threads[i].scheduled_time

\* C2: a cancellation requested before the polling loop has observed a due tick
\* prevents execution: once the stop flag of a thread that has not entered
\* run_kilosort is set, no step of that thread enters run_kilosort.
C2_CancelBeforeDueTick ==
    [][\A i \in ThreadIds :
          (Alive(i) /\ ~threads[i].running /\ Invocations(i) = 0)
             => Invocations(i)' = 0]_vars

\* C3: while an accepted job is armed or running, a schedule request creates
\* no new SchedulerThread and leaves the active job unchanged.
C3_ScheduleWhileBusyRejected ==
    [][(\E i \in ThreadIds : Alive(i) /\ threads[i].running)
          => /\ Len(threads') = Len(threads)
             /\ scheduler_thread' = scheduler_thread]_vars

\* The Schedule button can be clicked: the GUI thread is in its event loop and
\* the button is enabled.
ScheduleClickable == gui_pc = "idle" /\ schedule_button.enabled

\* The path a click on Schedule would take in the current state.
ClickBranch ==
    schedule_command_branch(data_file, results_dir, probe_file, datetime_edit, now)

\* What a click on Schedule would leave in the widgets in the current state.
ClickWidgets ==
    widgets_after_schedule(ClickBranch, countdown_label, schedule_button, cancel_button)

\* C4: an invalid schedule request (a path empty or unset, or a target time not
\* after now) is rejected: it takes one of the two early returns, no thread is
\* created or started, the Schedule button stays enabled and the Cancel button
\* stays disabled.
C4_InvalidRequestRejected ==
    /\ [](ScheduleClickable /\ InvalidRequest
             => /\ ClickBranch \in {"incomplete", "passed"}
                /\ ClickWidgets[2].enabled
                /\ ~ClickWidgets[3])
    /\ [][(schedule_command /\ InvalidRequest)
             => /\ threads' = threads
                /\ scheduler_thread' = scheduler_thread
                /\ schedule_button'.enabled
                /\ ~cancel_button']_vars

\* C4 witness: a request with a target time that is not in the future has been
\* rejected, nothing has ever been armed, and the request now pending is
\* invalid as well.
C4_Witness ==
    /\ countdown_label.text = "Scheduled time has passed"
    /\ threads = <<>>
    /\ scheduler_thread = 0
    /\ ScheduleClickable
    /\ InvalidRequest
    /\ ~cancel_button

\* C5: every rejected schedule request leaves a human-readable error indication
\* in the operator-visible state: whenever the request a click would submit is
\* invalid, the click leaves an error message in the countdown label.
C5_RejectionIsSurfaced ==
    (ScheduleClickable /\ InvalidRequest)
        => ClickWidgets[1].text = "Scheduled time has passed"

\* C6: at most one background SchedulerThread is alive.
C6_AtMostOneThreadAlive ==
    Cardinality({i \in ThreadIds : Alive(i)}) <= 1

\* C7: when run_kilosort raises, the job is not retried, the completion
\* notification is still emitted (run() goes on to the emit and has emitted when
\* it returns), and the control surface eventually shows the idle state again.
C7_FailureResets ==
    /\ [](\A i \in ThreadIds :
             (Created(i) /\ threads[i].outcome = "raised")
                => /\ Invocations(i) = 1
                   /\ threads[i].pc \in {"emit", "done"}
                   /\ (threads[i].pc = "done" => threads[i].emitted = 1))
    /\ (\E i \in ThreadIds :
           Created(i) /\ threads[i].outcome = "raised" /\ threads[i].pc = "emit")
          ~> IdleSurface

\* C7 witness: a run has raised, its notification has been handled, and the
\* control surface is idle with "Action finished" shown.
C7_Witness ==
    /\ \E i \in ThreadIds :
          /\ Created(i)
          /\ threads[i].outcome = "raised"
          /\ threads[i].pc = "done"
          /\ threads[i].emitted = 1
          /\ Invocations(i) = 1
    /\ events = <<>>
    /\ IdleSurface
    /\ countdown_label.text = "Action finished"

\* What the window shows after the notification of a run in which run_kilosort
\* returned (lines 341-345).
CompletedView ==
    <<Label("Action finished"), [enabled |-> TRUE, text |-> "Schedule", style |-> ""], FALSE>>

\* C8: the finished notification carries the outcome: handling it leaves the
\* window in the "completed" state exactly when run_kilosort returned, and in a
\* different state when run_kilosort raised.
C8_OutcomeIsCarried ==
    [][on_execution_finished
          => ((gui_widgets' = CompletedView) <=> (Head(events).outcome = "returned"))]_vars

C10_CancelDuringExecution ==
    /\ [][\A i \in ThreadIds :
             (Created(i) /\ ~threads[i].running /\ threads[i].pc \in {"exec", "emit"})
                => /\ threads'[i].pc \in {"exec", "emit", "done"}
                   /\ Invocations(i)' = Invocations(i)
                   /\ (threads'[i].pc = "done" => threads'[i].emitted = 1)]_vars
    /\ (\E i \in ThreadIds : Created(i) /\ ~threads[i].running /\ threads[i].pc = "exec")
          ~> (\E i \in ThreadIds :
                 /\ Created(i) /\ ~threads[i].running /\ threads[i].pc = "done"
                 /\ threads[i].emitted = 1 /\ Invocations(i) = 1)

\* C10 witness: a thread whose stop flag was set has completed its one call of
\* run_kilosort with a result, emitted finished and ended, and the blocked
\* cancel_schedule has returned.
C10_Witness ==
    /\ \E i \in ThreadIds :
          /\ Created(i)
          /\ ~threads[i].running
          /\ threads[i].pc = "done"
          /\ threads[i].outcome = "returned"
          /\ threads[i].emitted = 1
          /\ Invocations(i) = 1
    /\ gui_pc = "idle"
    /\ countdown_label.text = "Not scheduled"

\* C11: the GUI thread never blocks on the background thread: it is never
\* suspended in a slot while the thread it waits for is still sleeping,
\* polling or inside run_kilosort.
C11_GuiNeverBlocks ==
    ~(gui_pc = "wait" /\ isRunning(threads[scheduler_thread]))

\* C12: when main() has left app.exec(), no SchedulerThread is still polling
\* or executing: every alive thread was stopped and joined before.
C12_ShutdownJoinsThread ==
    gui_pc = "exited" => \A i \in ThreadIds : ~Alive(i)

\* The job a SchedulerThread holds: its target time and its three paths.
JobOf(th) ==
    [scheduled_time |-> th.scheduled_time, data_file |-> th.data_file,
     results_dir |-> th.results_dir, probe_file |-> th.probe_file]

\* What the operator submits when clicking Schedule: the date/time field and
\* the three selected paths.
Submitted ==
    [scheduled_time |-> datetime_edit, data_file |-> data_file,
     results_dir |-> results_dir, probe_file |-> probe_file]

\* C13: in every step, a thread created by the step holds exactly the submitted
\* values, the job of every alive thread is unchanged, and every run_kilosort
\* call made so far received the three paths of the job of its thread.
C13_JobImmutable ==
    [][\A i \in ThreadIds :
          /\ (~Created(i) /\ i <= Len(threads')) => JobOf(threads'[i]) = Submitted
          /\ Alive(i) => JobOf(threads'[i]) = JobOf(threads[i])
          /\ i <= Len(threads') =>
                \A k \in 1..Len(threads'[i].calls) :
                    threads'[i].calls[k] =
                        [data_file |-> JobOf(threads'[i]).data_file,
                         results_dir |-> JobOf(threads'[i]).results_dir,
                         probe_file |-> JobOf(threads'[i]).probe_file]]_vars

\* A job has been executed although the operator had changed both the date/time
\* field and the data file after scheduling it.
C13_Witness ==
    \E i \in ThreadIds :
        /\ Created(i)
        /\ Invocations(i) = 1
        /\ threads[i].scheduled_time # datetime_edit
        /\ threads[i].data_file # data_file
        /\ threads[i].calls[1].data_file = threads[i].data_file

\* H:00:00 of the day of moment r.
HourOfDay(r, H) == (r - (r % SecondsPerDay)) + H * SecondsPerHour

\* The target the absolute-hour preset is to produce for hour H at moment r:
\* H:00:00 of the same day when that is strictly later, else of the next day.
AbsoluteTarget(r, H) ==
    IF HourOfDay(r, H) > r THEN HourOfDay(r, H) ELSE HourOfDay(r, H) + SecondsPerDay

Recognized(time_type, unit) ==
    \/ time_type = "relative" /\ unit \in {"seconds", "hours"}
    \/ time_type = "absolute"

\* C15: whatever the clock shows, a call of set_scheduled_time with an absolute
\* hour outside 0..23 or with an unrecognized unit/time_type combination raises
\* and leaves the date/time field as it was.
C15_InvalidPresetRejected ==
    \A time_type \in TimeTypes, value \in PresetValues, unit \in Units :
    \A date_clock \in now..(now + 1) :
    \A compare_clock \in date_clock..(now + 1) :
        LET res == set_scheduled_time_result(time_type, value, unit, now,
                                             date_clock, compare_clock, datetime_edit)
        IN  (\/ ~Recognized(time_type, unit)
             \/ time_type = "absolute" /\ (value < 0 \/ value > 23))
            => (res.raised /\ res.datetime_edit = datetime_edit)

\* The "10 PM" preset has set the field, and from there hour 24, hour -1 and a
\* request of unknown type all raise and leave 22:00 in the field.
C15_Witness ==
    /\ now = 10 * SecondsPerHour - 1
    /\ datetime_edit = 22 * SecondsPerHour
    /\ \A request \in {<<"absolute", 24, "seconds">>, <<"absolute", -1, "seconds">>,
                       <<"weekly", 5, "seconds">>, <<"relative", 5, "minutes">>} :
          set_scheduled_time_result(request[1], request[2], request[3], now, now, now,
                                    datetime_edit)
              = [raised |-> TRUE, datetime_edit |-> 22 * SecondsPerHour]

\* C16: while the clock is before the scheduled_time of a thread, run_kilosort
\* has not been called for it and is not running; and every step in which a
\* thread calls run_kilosort is taken when the clock has reached its
\* scheduled_time.
C16_NoEarlyExecution ==
    /\ [](\A i \in ThreadIds :
            (Created(i) /\ now < threads[i].scheduled_time)
                => (Invocations(i) = 0 /\ threads[i].pc \notin {"exec", "emit"}))
    /\ [][\A i \in ThreadIds :
            (Created(i) /\ Len(threads'[i].calls) > Invocations(i))
                => now >= threads[i].scheduled_time]_vars

\* A job armed for a later time has been executed at the very second it became due.
C16_Witness ==
    \E i \in ThreadIds :
        /\ Created(i)
        /\ Invocations(i) = 1
        /\ threads[i].scheduled_time = now

\* C17: once stop() has been called on a thread that has not called
\* run_kilosort, the thread performs no further due check: it never leaves the
\* comparison of the clock with scheduled_time (towards run_kilosort or towards
\* a new sleep), at most the sleep in progress is completed.
C17_StopEndsPolling ==
    [][\A i \in ThreadIds :
          (Alive(i) /\ ~threads[i].running /\ Invocations(i) = 0 /\ threads[i].pc = "check")
             => threads'[i].pc = "check"]_vars

\* C18: whenever update_countdown can run for an armed job (the thread of
\* scheduler_thread is running, has not been stopped and has not called
\* run_kilosort), what it displays is that job's remaining time, its
\* scheduled_time minus now, or "Action has been triggered" when that
\* scheduled_time has been reached.
C18_CountdownOfAcceptedJob ==
    (/\ gui_pc = "idle"
     /\ scheduler_thread # 0
     /\ isRunning(threads[scheduler_thread])
     /\ threads[scheduler_thread].running
     /\ Invocations(scheduler_thread) = 0)
    => countdown_label_after_update =
          IF threads[scheduler_thread].scheduled_time > now
          THEN [text |-> "Time until execution",
                remaining |-> threads[scheduler_thread].scheduled_time - now]
          ELSE Label("Action has been triggered")

\* C19: whenever a SchedulerThread is armed or executing (alive, not asked to
\* stop, finished not yet emitted), the Schedule button is disabled and the
\* Cancel button is enabled.
C19_ControlSurfaceConsistent ==
    \A i \in ThreadIds :
        (Alive(i) /\ threads[i].running /\ threads[i].emitted = 0)
            => (~schedule_button.enabled /\ cancel_button)

\* C20: every thread has emitted finished at most once, and only after its one
\* run_kilosort call had returned or raised; a thread that has left its loop
\* without calling run_kilosort has emitted nothing; and every finished
\* notification waiting in the event queue was emitted after a run_kilosort
\* call had ended, by a thread that has made that call (or is already collected).
C20_FinishedOrdering ==
    /\ \A i \in ThreadIds :
          Created(i) =>
             /\ threads[i].emitted <= 1
             /\ threads[i].emitted = 1 =>
                   (Invocations(i) = 1 /\ threads[i].outcome \in {"returned", "raised"})
             /\ (threads[i].pc = "done" /\ Invocations(i) = 0) => threads[i].emitted = 0
    /\ \A k \in 1..Len(events) :
          /\ events[k].outcome \in {"returned", "raised"}
          /\ \/ threads[events[k].sender].pc = "destroyed"
             \/ Invocations(events[k].sender) = 1

\* A cancelled job: its thread was stopped, has left the loop without calling
\* run_kilosort and has emitted nothing; no notification is queued and the
\* window shows "Not scheduled".
C20_Witness ==
    /\ gui_pc = "idle"
    /\ events = <<>>
    /\ countdown_label = Label("Not scheduled")
    /\ \E i \in ThreadIds :
          /\ Created(i)
          /\ threads[i].pc = "done"
          /\ ~threads[i].running
          /\ Invocations(i) = 0
          /\ threads[i].emitted = 0

====
